---- MODULE Spec2Model ----
(***************************************************************************)
(* The ReAct agent of virt-llm-agents: ReactAgent.react (the thought ->    *)
(* action -> observation loop), its tool dispatch (execute_tool), prompt   *)
(* rendering (write_react_prompt / format_scratchpad), the model client    *)
(* (ModelService) and the workflow entry point (run_workflow); the         *)
(* workflow on its own (create_graph, run_workflow's stream and its        *)
(* checkpoints); the migration tools (create_migration_plan_tool and       *)
(* start_migration_plan_tool over OpenShiftService); the vSphere tools     *)
(* (list_vms, retrieve_vm_details); and verify_providers_ready.            *)
(*                                                                         *)
(* Python values are records [t, s]: t is the Python type, s the payload.  *)
(* A str that holds JSON text is a record [json, layout, val]: json says   *)
(* whether the text parses, layout how it is laid out, val what it parses  *)
(* to.  A parsed JSON object (a dict) is a function from its keys.         *)
(***************************************************************************)
EXTENDS Integers, Sequences, FiniteSets, TLC

VARIABLES
    tools,          \* ReactAgent.tools: the list of tool objects
    iterations,     \* run_workflow's iterations argument
    limit,          \* run_workflow's local {"recursion_limit": iterations}
    clock,          \* the wall clock, in microseconds
    pc,             \* position of the control flow
    user_request,   \* react's argument
    user_prompt,    \* react's local user_prompt
    sys_prompt,     \* react's local sys_prompt
    scratchpad,     \* react's local scratchpad (a list of str)
    response,       \* react's local response (the str invoke_model returned)
    response_dict,  \* react's local response_dict
    action,         \* react's local action
    action_input,   \* react's local action_input
    status,         \* react's local status
    tool_response,  \* react's local tool_response
    answer,         \* react's local answer
    result,         \* the value react returned
    exc,            \* the exception that left react, if any
    calls,          \* the external calls made so far (model requests, tool invocations)
    prev_prompt,    \* rendering alone: the rendering before the last one
    renders,        \* rendering alone: number of renderings made
    nodes,          \* workflow: the node names, in the order of the nodes dict
    edges,          \* workflow: the edges create_graph added to the graph
    config,         \* workflow: the config (session) run_workflow is called with
    checkpoint,     \* workflow: what the checkpointer holds, per session
    wf_pc,          \* workflow: position of the control flow
    wf_values,      \* workflow: the state the running stream threads through
    wf_next,        \* workflow: the node the running stream executes next
    ran,            \* workflow: the stage executions so far, in order
    ocp,            \* migration tools: what the OpenShift cluster answers
    vm_names,       \* migration tools: the vm_names argument
    tool_pc,        \* migration tools: position of the control flow
    tool_result,    \* tools: the value the tool (or function) returned
    svc_calls,      \* tools: the service calls the tool made, in order
    vsphere,        \* vSphere tools: what vCenter answers
    providers       \* verify_providers_ready: the providers argument

\* The variables of the workflow and those of the migration tools.
wfvars == <<nodes, edges, config, checkpoint, wf_pc, wf_values, wf_next, ran>>
toolvars == <<ocp, vm_names, tool_pc, tool_result, svc_calls, vsphere, providers>>

\* The variables of the agent.
reactvars == <<tools, clock, pc, user_request, user_prompt, sys_prompt,
               scratchpad, response, response_dict, action, action_input,
               status, tool_response, answer, result, exc, calls,
               prev_prompt, renders>>

vars == <<tools, iterations, limit, clock, pc, user_request, user_prompt,
          sys_prompt, scratchpad, response, response_dict, action,
          action_input, status, tool_response, answer, result, exc, calls,
          prev_prompt, renders, wfvars, toolvars>>

---------------------------------------------------------------------------
\* Bounds of the model

\* Model calls one react invocation may make before the model stops exploring.
MaxIter == 3
\* Last clock reading (microseconds) the model explores.
MaxClock == 1
\* Renderings made of one set of inputs when rendering is run alone.
MaxRenders == 2

---------------------------------------------------------------------------
\* Python values

None == [t |-> "None", s |-> ""]
Str(x) == [t |-> "str", s |-> x]
Dict(x) == [t |-> "dict", s |-> x]
List(x) == [t |-> "list", s |-> x]
NoText == [json |-> FALSE, layout |-> "none", val |-> None]

\* Variant of the truth test that takes every value as true (`if True:`).
Truthy_always(v) == TRUE

\* bool(v): Python truthiness, as `if action:` uses it.
Truthy(v) ==
    IF "t" \in DOMAIN v
    THEN ~(v.t = "None" \/ (v.t \in {"str", "dict", "list"} /\ v.s = ""))
    ELSE DOMAIN v # {}

\* json.loads(text): the parsed value, or a JSONDecodeError.
json_loads(text) ==
    IF text.json
    THEN [ok |-> TRUE, val |-> text.val, err |-> ""]
    ELSE [ok |-> FALSE, val |-> None,
          err |-> "Expecting value: line 1 column 1 (char 0)"]

\* json.dumps(v, indent=4): the text of v, laid out with a 4-space indent.
json_dumps_indent4(v) == [json |-> TRUE, layout |-> "indent4", val |-> v]

\* isinstance(v, dict), which decides whether v.get exists.
IsDict(v) == "t" \notin DOMAIN v

\* d.get(key, None)
DictGet(d, key) == IF key \in DOMAIN d THEN d[key] ELSE None

\* The workflow state (input and response slots) before anything is in it,
\* and an empty checkpointer.
NoValues == [input |-> "", response |-> {}]
NoCheckpoint == [saved |-> FALSE, values |-> NoValues, next |-> ""]

---------------------------------------------------------------------------
\* The environment: tools, model outputs, transport outcomes

EchoTool == [name |-> "echo", kind |-> "echo"]
BoomTool == [name |-> "boom", kind |-> "boom"]

\* A second tool registered under the name "echo".
ShadowTool == [name |-> "echo", kind |-> "boom"]

\* The tool lists an agent is constructed with: __init__ keeps the list it is
\* given, whatever the names in it.
ToolLists == {<<>>, <<EchoTool>>, <<EchoTool, BoomTool>>, <<EchoTool, ShadowTool>>}

UserRequests == {"list the vms"}

\* The iterations arguments run_workflow is called with.
StepLimits == {1, 2}

EchoInput == Dict("x=hi")

\* What the model may put into the "response" field of its HTTP body.
RawText(v) == [json |-> TRUE, layout |-> "compact", val |-> v]
RawOutputs ==
    { [json |-> FALSE, layout |-> "plain", val |-> Str("not json")],
      RawText(List("1")),
      RawText([thought |-> Str("hm")]),
      RawText([action |-> Str("")]),
      RawText([action |-> Str("echo"), action_input |-> EchoInput]),
      RawText([action |-> Str("boom")]),
      RawText([action |-> Str("nope")]),
      RawText([answer |-> Str("hi")]),
      RawText([answer |-> None]),
      RawText([action |-> Str("echo"), action_input |-> EchoInput, answer |-> Str("hi")]),
      RawText([action |-> Str("boom"), answer |-> Str("hi")]),
      RawText([action |-> Str("nope"), answer |-> Str("hi")]) }

\* requests.post outcomes that raise requests.RequestException.
TransportFailures == {"connection_error", "timeout", "http_error"}

\* tool.invoke(action_input): what a tool of this kind does with this input.
ToolInvoke(tool, input) ==
    IF tool.kind = "echo" /\ input.t = "dict"
    THEN [raised |-> FALSE, value |-> Str("hi"), err |-> ""]
    ELSE IF tool.kind = "echo"
    THEN [raised |-> TRUE, value |-> None, err |-> "validation error"]
    ELSE [raised |-> TRUE, value |-> None, err |-> "boom failed"]

---------------------------------------------------------------------------
\* utils/general/helpers.py, utils/general/tools.py

\* strftime("%Y-%m-%d %H:%M:%S.%f UTC")[:-3]: the slice drops "UTC", so the
\* text keeps all six microsecond digits and ends with a space.
get_current_utc_datetime == [micros |-> clock, tail |-> " "]

get_tools_name(tools_list) == [i \in 1..Len(tools_list) |-> tools_list[i].name]

\* render_text_description_and_args(...), braces doubled.
get_tools_description(tools_list) ==
    [i \in 1..Len(tools_list) |->
        [name |-> tools_list[i].name, braces |-> "doubled"]]

---------------------------------------------------------------------------
\* agent/react_agent.py: prompt rendering

\* DEFAULT_SYS_REACT_PROMPT.format(...): the template with its five fields.
write_react_prompt(up, agent_scratchpad) ==
    [tools_name |-> get_tools_name(tools),
     tools_description |-> get_tools_description(tools),
     datetime |-> get_current_utc_datetime,
     user_prompt |-> up,
     agent_scratchpad |-> agent_scratchpad]

\* entry.strip(): every entry begins with "<|start_header_id|>" and ends with
\* "<|eot_id|>", so there is no outer whitespace to remove.
Strip(entry) == [role |-> entry.role, content |-> entry.content]

\* One line per entry, in order.
format_scratchpad(sp) == [i \in 1..Len(sp) |-> Strip(sp[i])]

\* f"<|start_header_id|>{role}<|end_header_id|>\n\n{content}<|eot_id|>"
Message(role, content) == [role |-> role, content |-> content]

---------------------------------------------------------------------------
\* services/model_service.py

\* What one HTTP exchange with the model endpoint can come to.
HttpOutcomes ==
    {[kind |-> "ok", body |-> [response |-> r]] : r \in RawOutputs}
    \cup {[kind |-> "empty", body |-> [content |-> Str("")]]}
    \cup {[kind |-> k, body |-> [content |-> Str("")]] : k \in TransportFailures}

\* Variant of request_model_generate that swallows the RequestException and
\* answers with an error body instead of raising.
request_model_generate_swallow(http) ==
    IF http.kind = "ok"
    THEN [raised |-> FALSE, err |-> "", value |-> http.body]
    ELSE [raised |-> FALSE, err |-> "",
          value |-> [error |-> Str("Empty response from model")]]

\* request_model_generate: the decoded body, {"error": ...} for an empty body,
\* or Exception("Request failed: ...") for a requests.RequestException.
request_model_generate(http) ==
    IF http.kind \in TransportFailures
    THEN [raised |-> TRUE, err |-> "Request failed: " \o http.kind,
          value |-> [error |-> Str("")]]
    ELSE IF http.kind = "empty"
    THEN [raised |-> FALSE, err |-> "",
          value |-> [error |-> Str("Empty response from model")]]
    ELSE [raised |-> FALSE, err |-> "", value |-> http.body]

\* The text "{}", the default of response_json.get("response", "{}").
EmptyObjectText == [json |-> TRUE, layout |-> "compact", val |-> [k \in {} |-> None]]

\* Variant of process_model_response that answers an undecodable response
\* with the text of an empty object.
process_model_response_lenient(response_json) ==
    LET raw == IF "response" \in DOMAIN response_json
               THEN response_json.response ELSE EmptyObjectText
        parsed == json_loads(raw)
    IN  IF parsed.ok
        THEN json_dumps_indent4(parsed.val)
        ELSE json_dumps_indent4([k \in {} |-> None])

\* process_model_response: the "response" text parsed and printed again with
\* indent=4, or a fixed message when it does not parse.
process_model_response(response_json) ==
    LET raw == IF "response" \in DOMAIN response_json
               THEN response_json.response ELSE EmptyObjectText
        parsed == json_loads(raw)
    IN  IF parsed.ok
        THEN json_dumps_indent4(parsed.val)
        ELSE [json |-> FALSE, layout |-> "plain",
              val |-> Str("Error processing the response")]

\* prepare_payload: the two prompts the request carries.
prepare_payload(up, sp) == [prompt |-> up, system |-> sp]

---------------------------------------------------------------------------
\* agent/react_agent.py: tool dispatch

\* Indexes of the tools whose name equals the requested action.
Matching(act) ==
    {i \in 1..Len(tools) : act.t = "str" /\ tools[i].name = act.s}

FirstOf(S) == CHOOSE i \in S : \A j \in S : i <= j

\* Variant of execute_tool without the try/except around tool.invoke: a
\* raising tool leaves execute_tool without a (status, result) pair.
execute_tool_uncaught(act, input) ==
    IF Matching(act) = {}
    THEN [tuple |-> FALSE, status |-> FALSE,
          value |-> Str("Tool " \o act.s \o " not found or unsupported operation.")]
    ELSE LET r == ToolInvoke(tools[FirstOf(Matching(act))], input)
         IN  IF r.raised
             THEN [tuple |-> FALSE, status |-> FALSE, value |-> Str(r.err)]
             ELSE [tuple |-> TRUE, status |-> TRUE, value |-> r.value]

\* execute_tool: (True, result) or (False, message) from the first tool whose
\* name matches; the for-else branch returns a bare str, not a tuple.
execute_tool(act, input) ==
    IF Matching(act) = {}
    THEN [tuple |-> FALSE, status |-> FALSE,
          value |-> Str("Tool " \o act.s \o " not found or unsupported operation.")]
    ELSE LET r == ToolInvoke(tools[FirstOf(Matching(act))], input)
         IN  IF r.raised
             THEN [tuple |-> TRUE, status |-> FALSE,
                   value |-> Str("Error executing tool " \o act.s \o ": " \o r.err)]
             ELSE [tuple |-> TRUE, status |-> TRUE, value |-> r.value]

\* status, tool_response = <value>: a str of more than two characters does
\* not unpack into two names.
Unpack(ret) ==
    IF ret.tuple
    THEN [ok |-> TRUE, err |-> ""]
    ELSE [ok |-> FALSE, err |-> "too many values to unpack (expected 2)"]

---------------------------------------------------------------------------
\* agent/react_agent.py: ReactAgent.react

\* Variant of scratchpad.append that puts the entry first (insert(0, entry)).
AppendEntry_front(sp, entry) == <<entry>> \o sp

\* Variant of scratchpad.append that loses the entry.
AppendEntry_drop(sp, entry) == sp

\* scratchpad.append(entry)
AppendEntry(sp, entry) == Append(sp, entry)

\* str(v)
PyStr(v) ==
    IF v.t = "str" THEN v
    ELSE IF v.t = "None" THEN Str("None")
    ELSE Str(v.s)

NumModelCalls == Cardinality({i \in DOMAIN calls : calls[i].op = "model"})
NumDispatches == Cardinality({i \in DOMAIN calls : calls[i].op = "execute_tool"})

\* No workflow has been built and no migration tool called.
WorkflowUnused ==
    /\ nodes = <<>>
    /\ edges = {}
    /\ config = ""
    /\ checkpoint = [c \in {} |-> NoCheckpoint]
    /\ wf_pc = "unused"
    /\ wf_values = NoValues
    /\ wf_next = ""
    /\ ran = <<>>

ToolUnused ==
    /\ ocp = None
    /\ vm_names = None
    /\ tool_pc = "unused"
    /\ tool_result = None
    /\ svc_calls = <<>>
    /\ vsphere = None
    /\ providers = <<>>

Init ==
    /\ tools \in ToolLists
    /\ iterations = 0
    /\ limit = 0
    /\ clock = 0
    /\ pc = "idle"
    /\ user_request = ""
    /\ user_prompt = NoText
    /\ sys_prompt = NoText
    /\ scratchpad = <<>>
    /\ response = NoText
    /\ response_dict = None
    /\ action = None
    /\ action_input = None
    /\ status = "unbound"
    /\ tool_response = None
    /\ answer = None
    /\ result = [response |-> None, tool_response |-> None]
    /\ exc = ""
    /\ calls = <<>>
    /\ prev_prompt = NoText
    /\ renders = 0
    /\ WorkflowUnused
    /\ ToolUnused

\* run_workflow(graph, input_query, config, memory, iterations): builds
\* limit, which nothing reads, compiles the graph and streams it; the stream
\* runs the stage, which calls react with the input.
run_workflow ==
    /\ pc = "idle"
    /\ \E n \in StepLimits, q \in UserRequests :
          /\ iterations' = n
          /\ limit' = n
          /\ user_request' = q
    /\ pc' = "react"
    /\ UNCHANGED <<wfvars, toolvars>>
    /\ UNCHANGED <<tools, clock, user_prompt, sys_prompt, scratchpad, response,
                   response_dict, action, action_input, status, tool_response,
                   answer, result, exc, calls, prev_prompt, renders>>

\* react, up to the loop: the locals are set and the first prompt rendered.
react_begin ==
    /\ pc = "react"
    /\ answer' = None
    /\ user_prompt' = Message("user", Str(user_request))
    /\ sys_prompt' = write_react_prompt(user_prompt', <<>>)
    /\ tool_response' = None
    /\ action' = None
    /\ action_input' = None
    /\ scratchpad' = <<>>
    /\ pc' = "loop"
    /\ UNCHANGED <<wfvars, toolvars>>
    /\ UNCHANGED <<tools, iterations, limit, clock, user_request, response,
                   response_dict, status, result, exc, calls, prev_prompt,
                   renders>>

\* `while answer is None:` entered, then invoke_model: the payload is sent;
\* a transport failure leaves react as an exception, anything else becomes
\* the response text.  The HTTP exchange takes time: the clock has moved on
\* when it is over.
InvokeModel ==
    /\ pc = "loop"
    /\ answer = None
    /\ NumModelCalls < MaxIter
    /\ \E http \in HttpOutcomes :
          LET payload == prepare_payload(user_prompt, sys_prompt)
              got == request_model_generate(http)
          IN  /\ calls' = Append(calls, [op |-> "model", payload |-> payload,
                                         reply |-> http])
              /\ clock' = clock + 1
              /\ IF got.raised
                 THEN /\ pc' = "raised"
                      /\ exc' = got.err
                      /\ UNCHANGED response
                 ELSE /\ pc' = "parse"
                      /\ response' = process_model_response(got.value)
                      /\ UNCHANGED exc
    /\ UNCHANGED <<wfvars, toolvars>>
    /\ UNCHANGED <<tools, iterations, limit, user_request, user_prompt,
                   sys_prompt, scratchpad, response_dict, action, action_input,
                   status, tool_response, answer, result, prev_prompt, renders>>

\* Variant of the except branch that lets the exception go on (as a narrower
\* `except json.JSONDecodeError` would for the other exceptions).
HandleException_reraise(sp, msg) ==
    /\ scratchpad' = sp
    /\ UNCHANGED sys_prompt
    /\ pc' = "raised"
    /\ exc' = msg

\* Variant of the except branch that appends the entry and does not render
\* the prompt again.
HandleException_stale(sp, msg) ==
    /\ scratchpad' = AppendEntry(sp, Message("ipython", Str(msg)))
    /\ UNCHANGED sys_prompt
    /\ pc' = "loop"
    /\ UNCHANGED exc

\* The except branch: the exception text becomes an entry of the scratchpad
\* sp and the prompt is rendered again.
HandleException(sp, msg) ==
    /\ scratchpad' = AppendEntry(sp, Message("ipython", Str(msg)))
    /\ sys_prompt' = write_react_prompt(user_prompt, format_scratchpad(scratchpad'))
    /\ pc' = "loop"
    /\ UNCHANGED exc

\* Variant of the answer check that reads the key with a default
\* (`answer = response_dict.get("answer", "")`).
AnswerOf_default(d, old) == IF "answer" \in DOMAIN d THEN d["answer"] ELSE Str("")

\* Variant of the answer check that takes the text of the value
\* (`answer = str(response_dict["answer"])`).
AnswerOf_str(d, old) == IF "answer" \in DOMAIN d THEN PyStr(d["answer"]) ELSE old

\* `if "answer" in response_dict: answer = response_dict["answer"]`
AnswerOf(d, old) == IF "answer" \in DOMAIN d THEN d["answer"] ELSE old

\* The try block up to `if action:`: parse the response, append the model
\* turn, render the prompt, read action and action_input; without an action
\* the answer check follows at once.
ParseResponse ==
    /\ pc = "parse"
    /\ LET parsed == json_loads(response)
           sp1 == AppendEntry(scratchpad, Message("assistant", response))
       IN  IF ~parsed.ok
           THEN /\ HandleException(scratchpad, parsed.err)
                /\ UNCHANGED <<response_dict, action, action_input, answer>>
           ELSE IF ~IsDict(parsed.val)
           THEN /\ HandleException(sp1, "'list' object has no attribute 'get'")
                /\ response_dict' = parsed.val
                /\ UNCHANGED <<action, action_input, answer>>
           ELSE /\ response_dict' = parsed.val
                /\ scratchpad' = sp1
                /\ sys_prompt' = write_react_prompt(user_prompt, format_scratchpad(sp1))
                /\ action' = DictGet(parsed.val, "action")
                /\ action_input' = DictGet(parsed.val, "action_input")
                /\ IF Truthy(action')
                   THEN /\ pc' = "dispatch"
                        /\ UNCHANGED answer
                   ELSE /\ pc' = "loop"
                        /\ answer' = AnswerOf(parsed.val, answer)
                /\ UNCHANGED exc
    /\ UNCHANGED <<wfvars, toolvars>>
    /\ UNCHANGED <<tools, iterations, limit, clock, user_request, user_prompt,
                   response, status, tool_response, result, calls,
                   prev_prompt, renders>>

\* `if action:` taken: execute_tool, the observation becomes the user
\* prompt, then the answer check; a failed unpacking goes to the except
\* branch.
Dispatch ==
    /\ pc = "dispatch"
    /\ LET ret == execute_tool(action, action_input)
       IN  /\ calls' = Append(calls, [op |-> "execute_tool", name |-> action,
                                      input |-> action_input,
                                      invoked |-> Matching(action) # {}])
           /\ IF ~Unpack(ret).ok
              THEN /\ HandleException(scratchpad, Unpack(ret).err)
                   /\ UNCHANGED <<status, tool_response, user_prompt, answer>>
              ELSE /\ status' = IF ret.status THEN "True" ELSE "False"
                   /\ tool_response' = ret.value
                   /\ user_prompt' = json_dumps_indent4([observation |-> ret.value])
                   /\ answer' = AnswerOf(response_dict, answer)
                   /\ pc' = "loop"
                   /\ UNCHANGED <<scratchpad, sys_prompt, exc>>
    /\ UNCHANGED <<wfvars, toolvars>>
    /\ UNCHANGED <<tools, iterations, limit, clock, user_request, response,
                   response_dict, action, action_input, result,
                   prev_prompt, renders>>

\* The loop condition fails: react returns the answer and the last tool
\* response.
Return ==
    /\ pc = "loop"
    /\ answer # None
    /\ result' = [response |-> answer, tool_response |-> PyStr(tool_response)]
    /\ pc' = "done"
    /\ UNCHANGED <<wfvars, toolvars>>
    /\ UNCHANGED <<tools, iterations, limit, clock, user_request, user_prompt,
                   sys_prompt, scratchpad, response, response_dict, action,
                   action_input, status, tool_response, answer, exc, calls,
                   prev_prompt, renders>>

Next ==
    \/ run_workflow
    \/ react_begin
    \/ InvokeModel
    \/ ParseResponse
    \/ Dispatch
    \/ Return

Spec == Init /\ [][Next]_vars

---------------------------------------------------------------------------
\* Prompt rendering on its own: write_react_prompt applied again and again
\* to one tool list, one user prompt and one scratchpad while the clock runs.

PromptScratchpads ==
    { <<>>,
      <<Message("assistant", json_dumps_indent4([thought |-> Str("hm")]))>>,
      <<Message("assistant", json_dumps_indent4([action |-> Str("nope")])),
        Message("ipython", Str("too many values to unpack (expected 2)"))>> }

PromptUserPrompts ==
    { Message("user", Str("list the vms")),
      json_dumps_indent4([observation |-> Str("hi")]) }

InitPrompt ==
    /\ tools \in ToolLists
    /\ user_prompt \in PromptUserPrompts
    /\ scratchpad \in PromptScratchpads
    /\ pc = "render"
    /\ iterations = 0
    /\ limit = 0
    /\ clock = 0
    /\ user_request = ""
    /\ sys_prompt = NoText
    /\ response = NoText
    /\ response_dict = None
    /\ action = None
    /\ action_input = None
    /\ status = "unbound"
    /\ tool_response = None
    /\ answer = None
    /\ result = [response |-> None, tool_response |-> None]
    /\ exc = ""
    /\ calls = <<>>
    /\ prev_prompt = NoText
    /\ renders = 0
    /\ WorkflowUnused
    /\ ToolUnused

\* Time passes.
Tick ==
    /\ clock < MaxClock
    /\ clock' = clock + 1
    /\ UNCHANGED <<wfvars, toolvars>>
    /\ UNCHANGED <<tools, iterations, limit, pc, user_request, user_prompt,
                   sys_prompt, scratchpad, response, response_dict, action,
                   action_input, status, tool_response, answer, result, exc,
                   calls, prev_prompt, renders>>

\* One call of write_react_prompt with the inputs chosen at the start.
RenderPrompt ==
    /\ pc = "render"
    /\ renders < MaxRenders
    /\ prev_prompt' = sys_prompt
    /\ sys_prompt' = write_react_prompt(user_prompt, format_scratchpad(scratchpad))
    /\ renders' = renders + 1
    /\ UNCHANGED <<wfvars, toolvars>>
    /\ UNCHANGED <<tools, iterations, limit, clock, pc, user_request,
                   user_prompt, scratchpad, response, response_dict, action,
                   action_input, status, tool_response, answer, result, exc,
                   calls>>

NextPrompt ==
    \/ Tick
    \/ RenderPrompt

SpecPrompt == InitPrompt /\ [][NextPrompt]_vars

---------------------------------------------------------------------------
\* state/state_graph.py, memory/sqlite_saver.py: the workflow.  A graph is
\* built from a nodes dict, compiled with a checkpointer and streamed; the
\* stream runs one stage after another and saves a checkpoint after each.

\* Bound: calls of run_workflow the model explores.
MaxRuns == 2

\* langgraph.graph.START and END
START == "__start__"
END == "__end__"

\* The nodes dicts create_graph is called with, as the list of their keys.
NodeDicts ==
    { <<>>,
      <<"planner">>,
      <<"planner", "migrator">>,
      <<"planner", "migrator", "reporter">> }

\* The session ids (thread ids) a config carries.
Sessions == {"s1", "s2"}

\* Variant of create_graph whose loop stops one short
\* (`range(len(node_names) - 2)`).
create_graph_short(node_names) ==
    {<<START, node_names[1]>>}
    \cup {<<node_names[i], node_names[i + 1]>> : i \in 1..(Len(node_names) - 2)}
    \cup {<<node_names[Len(node_names)], END>>}

\* create_graph: the edges added for the keys of a non-empty nodes dict.
create_graph(node_names) ==
    {<<START, node_names[1]>>}
    \cup {<<node_names[i], node_names[i + 1]>> : i \in 1..(Len(node_names) - 1)}
    \cup {<<node_names[Len(node_names)], END>>}

\* The nodes an edge leads to from n, and those an edge leads from to n.
Successors(n) == {m \in {nodes[i] : i \in DOMAIN nodes} \cup {END} : <<n, m>> \in edges}
Predecessors(n) == {m \in {nodes[i] : i \in DOMAIN nodes} \cup {START} : <<m, n>> \in edges}

\* initialize_memory(): a checkpointer that holds nothing yet.
initialize_memory == [c \in Sessions |-> NoCheckpoint]

NumRuns == Cardinality({i \in DOMAIN ran : ran[i].op = "stream"})

\* The agent is not part of a run of the workflow alone.
ReactUnused ==
    /\ tools = <<>>
    /\ clock = 0
    /\ pc = "unused"
    /\ user_request = ""
    /\ user_prompt = NoText
    /\ sys_prompt = NoText
    /\ scratchpad = <<>>
    /\ response = NoText
    /\ response_dict = None
    /\ action = None
    /\ action_input = None
    /\ status = "unbound"
    /\ tool_response = None
    /\ answer = None
    /\ result = [response |-> None, tool_response |-> None]
    /\ exc = ""
    /\ calls = <<>>
    /\ prev_prompt = NoText
    /\ renders = 0

InitWorkflow ==
    /\ nodes \in NodeDicts
    /\ edges = {}
    /\ config = ""
    /\ checkpoint = initialize_memory
    /\ wf_pc = "new"
    /\ wf_values = NoValues
    /\ wf_next = ""
    /\ ran = <<>>
    /\ iterations = 0
    /\ limit = 0
    /\ ReactUnused
    /\ ToolUnused

\* create_graph(stateGraph, nodes): the nodes and edges are added; an empty
\* dict has no node_names[0] and the call ends in an IndexError.
CreateGraph ==
    /\ wf_pc = "new"
    /\ IF nodes = <<>>
       THEN /\ wf_pc' = "raised"
            /\ UNCHANGED edges
       ELSE /\ wf_pc' = "built"
            /\ edges' = create_graph(nodes)
    /\ UNCHANGED <<nodes, config, checkpoint, wf_values, wf_next, ran,
                   iterations, limit>>
    /\ UNCHANGED <<reactvars, toolvars>>

\* run_workflow up to the first stage: limit is built and read by nothing,
\* the graph is compiled with the checkpointer, and workflow.stream is
\* called with dict_inputs and the config.  The input is never None, so the
\* stream does not resume: it writes the input over the state saved for the
\* session and starts at the node after START.
StreamWorkflow ==
    /\ wf_pc \in {"built", "interrupted", "finished"}
    /\ NumRuns < MaxRuns
    /\ \E n \in StepLimits, q \in UserRequests, c \in Sessions :
          /\ iterations' = n
          /\ limit' = n
          /\ config' = c
          /\ wf_values' = [checkpoint[c].values EXCEPT !.input = q]
          /\ ran' = Append(ran, [op |-> "stream", name |-> c])
    /\ wf_next' = CHOOSE m \in Successors(START) : TRUE
    /\ wf_pc' = "streaming"
    /\ UNCHANGED <<nodes, edges, checkpoint>>
    /\ UNCHANGED <<reactvars, toolvars>>

\* One step of the stream: the next stage runs and writes its slot, the
\* state is saved under the session id, and the stream goes on to the node
\* the edge leads to, or is over.
RunStage ==
    /\ wf_pc = "streaming"
    /\ LET after == Successors(wf_next)
           following == IF after = {} THEN END ELSE CHOOSE m \in after : TRUE
       IN  /\ wf_values' = [wf_values EXCEPT !.response = @ \cup {wf_next}]
           /\ ran' = Append(ran, [op |-> "stage", name |-> wf_next])
           /\ checkpoint' = [checkpoint EXCEPT ![config] =
                                [saved |-> TRUE, values |-> wf_values',
                                 next |-> following]]
           /\ wf_next' = following
           /\ wf_pc' = IF following = END THEN "finished" ELSE "streaming"
    /\ UNCHANGED <<nodes, edges, config, iterations, limit>>
    /\ UNCHANGED <<reactvars, toolvars>>

\* The run is interrupted between two stages (an exception in the caller's
\* loop, a KeyboardInterrupt): the stream is gone, the checkpointer is not.
Interrupt ==
    /\ wf_pc = "streaming"
    /\ checkpoint[config].saved
    /\ checkpoint[config].next = wf_next
    /\ wf_pc' = "interrupted"
    /\ wf_values' = NoValues
    /\ wf_next' = ""
    /\ UNCHANGED <<nodes, edges, config, checkpoint, ran, iterations, limit>>
    /\ UNCHANGED <<reactvars, toolvars>>

NextWorkflow ==
    \/ CreateGraph
    \/ StreamWorkflow
    \/ RunStage
    \/ Interrupt

SpecWorkflow == InitWorkflow /\ [][NextWorkflow]_vars

---------------------------------------------------------------------------
\* tools/openshift/migration_plan.py, services/openshift_service.py: the
\* tool that creates a migration plan, run against a cluster whose answers
\* are fixed at the start.

\* The methods class OpenShiftService defines.
OpenShiftServiceMethods ==
    { "get_projects", "check_project_access", "get_providers",
      "verify_providers_ready", "create_migration_plan",
      "get_vms_for_migration", "lookup_provider_uuid_by_name",
      "lookup_vm_id_by_name", "start_migration",
      "get_migration_plan_by_name", "create_storage_map",
      "create_network_map" }

\* openshift_service.<method>: the attribute lookup succeeds.
HasMethod(m) == m \in OpenShiftServiceMethods

\* str(AttributeError) of a lookup that fails.
AttributeErrorText(m) == "'OpenShiftService' object has no attribute '" \o m \o "'"

\* What the inventory answers for a provider, and what a create call does.
ProviderAnswers == {"found", "absent", "request_error"}
CreateAnswers == {"created", "request_error"}
VmInventory == {"vm1", "vm2"}

\* The clusters the tool is run against.
OcpWorlds ==
    [vmware : ProviderAnswers,
     host : ProviderAnswers,
     inventory : {[ok |-> TRUE, vms |-> S] : S \in SUBSET VmInventory}
                   \cup {[ok |-> FALSE, vms |-> {}]},
     network_map : CreateAnswers,
     storage_map : CreateAnswers,
     plan : CreateAnswers]

\* The vm_names arguments the tool is called with.
VmNameArgs == {None, List(<<>>), List(<<"vm1">>), List(<<"vm1", "vm2">>)}

ProviderErrorText == "Error retrieving provider information: request failed"
VmErrorText == "Error retrieving VM information: request failed"

\* lookup_provider_uuid_by_name: the uid, None, or an "Error ..." str.
lookup_provider_uuid_by_name(w, provider_name) ==
    IF w[provider_name] = "found" THEN Str("uid-" \o provider_name)
    ELSE IF w[provider_name] = "absent" THEN None
    ELSE Str(ProviderErrorText)

\* `isinstance(v, str) and "Error" in v`: a uid holds no such word.
IsErrorStr(v) == v.t = "str" /\ v.s = ProviderErrorText

\* lookup_vm_id_by_name: the id, None, or an "Error ..." str.
lookup_vm_id_by_name(w, vm_name) ==
    IF ~w.inventory.ok THEN Str(VmErrorText)
    ELSE IF vm_name \in w.inventory.vms THEN Str("id-" \o vm_name)
    ELSE None

\* The loop over vm_names: the list of {"id", "name"} built, or the message
\* returned for the first name without an id.  The lookup answers a str or
\* None, never a dict, so its error str is taken as an id.
RECURSIVE LookupVms(_, _, _, _)
LookupVms(w, names, i, vms) ==
    IF i > Len(names)
    THEN [returned |-> FALSE, value |-> None, vms |-> vms]
    ELSE LET vm_id == lookup_vm_id_by_name(w, names[i])
         IN  IF Truthy(vm_id)
             THEN LookupVms(w, names, i + 1,
                            Append(vms, [id |-> vm_id.s, name |-> names[i]]))
             ELSE [returned |-> TRUE,
                   value |-> Str("VM '" \o names[i] \o "' not found."),
                   vms |-> vms]

\* create_network_map / create_storage_map: a 3-tuple, or a str on a failed
\* request.
create_map(outcome) == [tuple |-> outcome = "created"]

\* The plan object the API returns for a created plan.
CreatedPlan(vms) == [t |-> "dict", s |-> "plan", vms |-> vms]

\* create_migration_plan: the created plan, or a str for an ApiException.
create_migration_plan(w, vms) ==
    IF w.plan = "created"
    THEN CreatedPlan(vms)
    ELSE Str("Failed to create migration plan: ApiException")

\* The except branch of the tool.
Failed(msg) == Str("Failed to create migration plan: " \o msg)

\* create_migration_plan_tool(vm_names, name, source): what it returns.
create_migration_plan_tool(w, names) ==
    LET vmware_provider_uuid == lookup_provider_uuid_by_name(w, "vmware")
        openshift_provider_uuid == lookup_provider_uuid_by_name(w, "host")
    IN  IF IsErrorStr(vmware_provider_uuid) THEN vmware_provider_uuid
        ELSE IF vmware_provider_uuid = None THEN Str("Provider 'vmware' not found.")
        ELSE IF IsErrorStr(openshift_provider_uuid) THEN openshift_provider_uuid
        ELSE IF openshift_provider_uuid = None THEN Str("Provider OpenShift not found.")
        ELSE IF ~HasMethod("get_network_id_by_name")
        THEN Failed(AttributeErrorText("get_network_id_by_name"))
        ELSE IF names.t = "None"
        THEN Str("Failed to create migration plan: No VM was provided!")
        ELSE LET looked == LookupVms(w, names.s, 1, <<>>)
             IN  IF looked.returned THEN looked.value
                 ELSE IF ~HasMethod("get_datastore_id_by_vm_id")
                 THEN Failed(AttributeErrorText("get_datastore_id_by_vm_id"))
                 ELSE IF looked.vms = <<>>
                 THEN Failed("list index out of range")
                 ELSE IF ~create_map(w.network_map).tuple
                 THEN Failed("too many values to unpack (expected 3)")
                 ELSE IF ~create_map(w.storage_map).tuple
                 THEN Failed("too many values to unpack (expected 3)")
                 ELSE create_migration_plan(w, looked.vms)

InitPlan ==
    /\ ocp \in OcpWorlds
    /\ vm_names \in VmNameArgs
    /\ tool_pc = "ready"
    /\ tool_result = None
    /\ svc_calls = <<>>
    /\ vsphere = None
    /\ providers = <<>>
    /\ iterations = 0
    /\ limit = 0
    /\ ReactUnused
    /\ WorkflowUnused

\* The tool is invoked and returns.
CreateMigrationPlanTool ==
    /\ tool_pc = "ready"
    /\ tool_result' = create_migration_plan_tool(ocp, vm_names)
    /\ tool_pc' = "returned"
    /\ UNCHANGED <<ocp, vm_names, svc_calls, vsphere, providers, iterations, limit>>
    /\ UNCHANGED <<reactvars, wfvars>>

NextPlan == CreateMigrationPlanTool

SpecPlan == InitPlan /\ [][NextPlan]_vars

---------------------------------------------------------------------------
\* tools/openshift/migration_plan.py: the tool that starts a migration for
\* a named plan.

\* A condition of a status.
Condition(type, state) == [type |-> type, status |-> state]

\* The conditions lists a plan's status carries.
PlanConditionLists ==
    { <<>>,
      <<Condition("Ready", "True")>>,
      <<Condition("Ready", "False")>>,
      <<Condition("Failed", "True")>>,
      <<Condition("Failed", "True"), Condition("Ready", "True")>>,
      <<Condition("Ready", "False"), Condition("Failed", "True")>> }

\* The plan objects the cluster holds: with or without metadata.uid, with
\* or without a status.
MigrationPlans ==
    {[t |-> "dict", s |-> "plan", has_uid |-> u, has_status |-> TRUE,
      conditions |-> c] : u \in BOOLEAN, c \in PlanConditionLists}
    \cup {[t |-> "dict", s |-> "plan", has_uid |-> u, has_status |-> FALSE,
           conditions |-> <<>>] : u \in BOOLEAN}

\* The clusters start_migration_plan_tool is run against.
StartWorlds ==
    [service : {"ok", "fails"},
     lookup : ProviderAnswers,
     plan : MigrationPlans,
     start : CreateAnswers]

PlanErrorText == "Error retrieving migration plans: request failed"

\* get_migration_plan_by_name: the plan object, None, or an "Error ..." str.
get_migration_plan_by_name(w) ==
    IF w.lookup = "found" THEN w.plan
    ELSE IF w.lookup = "absent" THEN None
    ELSE Str(PlanErrorText)

\* start_migration: the API's response, or a str for a failed request.
start_migration(w) ==
    IF w.start = "created"
    THEN [t |-> "dict", s |-> "migration"]
    ELSE Str("Failed to start migration: request failed")

\* Variant of the readiness loop that looks at the status of a condition
\* and not at its type.
ReadyStatus_anytype(conditions) ==
    \E i \in DOMAIN conditions : conditions[i].status = "True"

\* The loop over the conditions: ready_status.
ReadyStatus(conditions) ==
    \E i \in DOMAIN conditions :
        conditions[i].type = "Ready" /\ conditions[i].status = "True"

\* The try block of start_migration_plan_tool: what it returns or raises,
\* and the service calls it makes.
start_migration_plan_try(w) ==
    IF w.service = "fails"
    THEN [raised |-> TRUE, err |-> "Failed to initialize OpenShiftService",
          value |-> None, called |-> <<>>]
    ELSE LET migration_plan == get_migration_plan_by_name(w)
             looked == <<"get_migration_plan_by_name">>
         IN  IF migration_plan.t = "str" /\ migration_plan.s = PlanErrorText
             THEN [raised |-> FALSE, err |-> "", value |-> migration_plan,
                   called |-> looked]
             ELSE IF migration_plan.t = "None"
             THEN [raised |-> FALSE, err |-> "",
                   value |-> Str("Migration plan 'p' not found."),
                   called |-> looked]
             ELSE IF ~migration_plan.has_uid
             THEN [raised |-> TRUE, err |-> "'uid'", value |-> None,
                   called |-> looked]
             ELSE IF ~ReadyStatus(migration_plan.conditions)
             THEN [raised |-> FALSE, err |-> "",
                   value |-> Str("Migration plan 'p' is not ready."),
                   called |-> looked]
             ELSE [raised |-> FALSE, err |-> "", value |-> start_migration(w),
                   called |-> Append(looked, "start_migration")]

\* start_migration_plan_tool(plan_name, namespace): the try block, with
\* every exception turned into a message.
start_migration_plan_tool(w) ==
    LET tried == start_migration_plan_try(w)
    IN  IF tried.raised
        THEN [raised |-> FALSE, err |-> "",
              value |-> Str("Failed to start migration: " \o tried.err),
              called |-> tried.called]
        ELSE tried

InitStart ==
    /\ ocp \in StartWorlds
    /\ vm_names = None
    /\ tool_pc = "ready"
    /\ tool_result = None
    /\ svc_calls = <<>>
    /\ vsphere = None
    /\ providers = <<>>
    /\ iterations = 0
    /\ limit = 0
    /\ ReactUnused
    /\ WorkflowUnused

\* The tool is invoked and returns (or raises).
StartMigrationPlanTool ==
    /\ tool_pc = "ready"
    /\ LET ended == start_migration_plan_tool(ocp)
       IN  /\ tool_result' = ended.value
           /\ svc_calls' = ended.called
           /\ tool_pc' = IF ended.raised THEN "raised" ELSE "returned"
    /\ UNCHANGED <<ocp, vm_names, vsphere, providers, iterations, limit>>
    /\ UNCHANGED <<reactvars, wfvars>>

NextStart == StartMigrationPlanTool

SpecStart == InitStart /\ [][NextStart]_vars

---------------------------------------------------------------------------
\* tools/vsphere/vms.py, utils/vsphere/vsphere_utils.py: the vSphere tools,
\* run against a vCenter whose answers are fixed at the start.

\* What vCenter does: SmartConnect and RetrieveContent succeed or raise, the
\* container view lists VMs, lists none or raises, the named VM is among
\* the listed ones or not, reading its details succeeds or raises, and
\* Disconnect succeeds or raises.
VsphereWorlds ==
    [smart_connect : {"ok", "fails"},
     retrieve_content : {"ok", "fails"},
     view : {"vms", "empty", "raises"},
     vm : {"found", "absent"},
     details : {"ok", "raises"},
     disconnect : {"ok", "fails"}]

\* An entry of the trace of calls to vCenter.
VCall(op, ok) == [op |-> op, ok |-> ok]

\* connect_to_vsphere: (si, content), or None when SmartConnect or
\* RetrieveContent raised; in the second case the session SmartConnect
\* opened is left behind.
connect_to_vsphere(w) ==
    IF w.smart_connect = "fails"
    THEN [pair |-> FALSE, called |-> <<VCall("SmartConnect", FALSE)>>]
    ELSE IF w.retrieve_content = "fails"
    THEN [pair |-> FALSE,
          called |-> <<VCall("SmartConnect", TRUE), VCall("RetrieveContent", FALSE)>>]
    ELSE [pair |-> TRUE,
          called |-> <<VCall("SmartConnect", TRUE), VCall("RetrieveContent", TRUE)>>]

\* disconnect_from_vsphere(si): Disconnect, whose failure is caught.
disconnect_from_vsphere(w) == <<VCall("Disconnect", w.disconnect = "ok")>>

\* The finally block of both tools: `if si: disconnect_from_vsphere(si)`,
\* after the try block and its except branch.
Finally(w, connected, tried) ==
    [raised |-> tried.raised, err |-> tried.err, value |-> tried.value,
     called |-> IF connected
                THEN tried.called \o disconnect_from_vsphere(w)
                ELSE tried.called]

\* An except branch: the exception becomes the message the tool returns.
Caught(tried, prefix) ==
    IF tried.raised
    THEN [raised |-> FALSE, err |-> "", value |-> Str(prefix \o tried.err),
          called |-> tried.called]
    ELSE tried

UnpackNoneText == "cannot unpack non-iterable NoneType object"

\* The try block of list_vms.
list_vms_try(w) ==
    LET conn == connect_to_vsphere(w)
    IN  IF ~conn.pair
        THEN [raised |-> TRUE, err |-> UnpackNoneText, value |-> None,
              called |-> conn.called]
        ELSE IF w.view = "raises"
        THEN [raised |-> TRUE, err |-> "Failed to retrieve VMs: view failed",
              value |-> None, called |-> Append(conn.called, VCall("CreateContainerView", FALSE))]
        ELSE IF w.view = "empty"
        THEN [raised |-> TRUE, err |-> UnpackNoneText, value |-> None,
              called |-> Append(conn.called, VCall("CreateContainerView", TRUE))]
        ELSE [raised |-> FALSE, err |-> "", value |-> List(<<"vm1">>),
              called |-> Append(conn.called, VCall("CreateContainerView", TRUE))]

\* list_vms(): the names, or a message.
list_vms(w) ==
    Finally(w, connect_to_vsphere(w).pair,
            Caught(list_vms_try(w), "Failed to list vms. "))

\* The try block of retrieve_vm_details.
retrieve_vm_details_try(w) ==
    LET conn == connect_to_vsphere(w)
    IN  IF ~conn.pair
        THEN [raised |-> TRUE, err |-> UnpackNoneText, value |-> None,
              called |-> conn.called]
        ELSE IF w.view = "raises"
        THEN [raised |-> TRUE,
              err |-> "local variable 'container' referenced before assignment",
              value |-> None, called |-> Append(conn.called, VCall("CreateContainerView", FALSE))]
        ELSE IF w.view = "empty" \/ w.vm = "absent"
        THEN [raised |-> FALSE, err |-> "", value |-> Str("VM 'vm1' not found."),
              called |-> Append(conn.called, VCall("CreateContainerView", TRUE))]
        ELSE IF w.details = "raises"
        THEN [raised |-> TRUE, err |-> "Failed to retrieve details for VM: read failed",
              value |-> None, called |-> Append(conn.called, VCall("CreateContainerView", TRUE))]
        ELSE [raised |-> FALSE, err |-> "", value |-> Dict("vm1 details"),
              called |-> Append(conn.called, VCall("CreateContainerView", TRUE))]

\* retrieve_vm_details(vm_name): the details, or a message.
retrieve_vm_details(w) ==
    Finally(w, connect_to_vsphere(w).pair,
            Caught(retrieve_vm_details_try(w),
                   "Failed to retrieve details for VM 'vm1': "))

InitVsphere ==
    /\ vsphere \in VsphereWorlds
    /\ ocp = None
    /\ vm_names = None
    /\ tool_pc = "ready"
    /\ tool_result = None
    /\ svc_calls = <<>>
    /\ providers = <<>>
    /\ iterations = 0
    /\ limit = 0
    /\ ReactUnused
    /\ WorkflowUnused

\* A tool has ended: its value, its calls, and whether it raised.
ToolEnds(ended, name) ==
    /\ tool_result' = ended.value
    /\ svc_calls' = ended.called
    /\ tool_pc' = IF ended.raised THEN "raised" ELSE name
    /\ UNCHANGED <<ocp, vm_names, vsphere, providers, iterations, limit>>
    /\ UNCHANGED <<reactvars, wfvars>>

ListVms ==
    /\ tool_pc = "ready"
    /\ ToolEnds(list_vms(vsphere), "list_vms returned")

RetrieveVmDetails ==
    /\ tool_pc = "ready"
    /\ ToolEnds(retrieve_vm_details(vsphere), "retrieve_vm_details returned")

NextVsphere ==
    \/ ListVms
    \/ RetrieveVmDetails

SpecVsphere == InitVsphere /\ [][NextVsphere]_vars

---------------------------------------------------------------------------
\* services/openshift_service.py: verify_providers_ready, applied to the
\* provider lists a cluster can answer with.

\* Bound: providers in the list.
MaxProviders == 2

\* The conditions lists a provider's status carries.
ProviderConditionLists ==
    { <<>>,
      <<Condition("Ready", "True")>>,
      <<Condition("Ready", "False")>>,
      <<Condition("ConnectionTestSucceeded", "True"), Condition("Ready", "True")>> }

\* Provider objects: named vmware, host or otherwise, with a status and its
\* conditions, or (not reconciled yet) without a status.
ProviderObjects ==
    {[name |-> n, has_status |-> TRUE, conditions |-> c] :
        n \in {"vmware", "host", "other"}, c \in ProviderConditionLists}
    \cup {[name |-> n, has_status |-> FALSE, conditions |-> <<>>] :
             n \in {"vmware", "host", "other"}}

ProviderLists ==
    UNION {[1..k -> ProviderObjects] : k \in 0..MaxProviders}

PyTrue == [t |-> "bool", s |-> "True"]

\* The flag the loop sets for the provider of this name.
ProviderFlag(ps, n) ==
    \E i \in DOMAIN ps :
        /\ ps[i].name = n
        /\ \E j \in DOMAIN ps[i].conditions :
              /\ ps[i].conditions[j].type = "Ready"
              /\ ps[i].conditions[j].status = "True"

\* ", ".join(missing_providers)
JoinMissing(vmware_ready, host_ready) ==
    IF ~vmware_ready /\ ~host_ready THEN "vmware, host"
    ELSE IF ~vmware_ready THEN "vmware"
    ELSE "host"

\* verify_providers_ready(providers): True, the message, or the KeyError of
\* provider["status"] for a vmware or host provider that has no status.
verify_providers_ready(ps) ==
    IF \E i \in DOMAIN ps : ps[i].name \in {"vmware", "host"} /\ ~ps[i].has_status
    THEN [raised |-> TRUE, err |-> "'status'", value |-> None]
    ELSE LET vmware_ready == ProviderFlag(ps, "vmware")
             host_ready == ProviderFlag(ps, "host")
         IN  IF vmware_ready /\ host_ready
             THEN [raised |-> FALSE, err |-> "", value |-> PyTrue]
             ELSE [raised |-> FALSE, err |-> "",
                   value |-> Str("The following providers are not ready: "
                                 \o JoinMissing(vmware_ready, host_ready))]

InitProviders ==
    /\ providers \in ProviderLists
    /\ ocp = None
    /\ vm_names = None
    /\ tool_pc = "ready"
    /\ tool_result = None
    /\ svc_calls = <<>>
    /\ vsphere = None
    /\ iterations = 0
    /\ limit = 0
    /\ ReactUnused
    /\ WorkflowUnused

\* The function is called and returns or raises.
VerifyProvidersReady ==
    /\ tool_pc = "ready"
    /\ LET ended == verify_providers_ready(providers)
       IN  /\ tool_result' = ended.value
           /\ tool_pc' = IF ended.raised THEN "raised" ELSE "returned"
    /\ UNCHANGED <<ocp, vm_names, svc_calls, vsphere, providers, iterations, limit>>
    /\ UNCHANGED <<reactvars, wfvars>>

NextProviders == VerifyProvidersReady

SpecProviders == InitProviders /\ [][NextProviders]_vars

---------------------------------------------------------------------------
\* Properties

Last(seq) == seq[Len(seq)]

IsPrefix(a, b) == Len(a) <= Len(b) /\ SubSeq(b, 1, Len(a)) = a

\* The step is a model call; LastReply is then what the endpoint answered.
ModelCalled == Len(calls') = Len(calls) + 1 /\ Last(calls').op = "model"

\* The response in hand parsed as a JSON object.
ResponseIsObject == response.json /\ IsDict(response.val)

\* The reply of the model call the current iteration began with.
LastReply == calls[CHOOSE i \in DOMAIN calls :
                      /\ calls[i].op = "model"
                      /\ \A j \in DOMAIN calls : calls[j].op = "model" => j <= i].reply

\* The raw model output of this iteration is not valid JSON.
RawOutputMalformed ==
    /\ NumModelCalls > 0
    /\ LastReply.kind = "ok"
    /\ ~LastReply.body.response.json

\* An iteration has just ended and control is back at the loop condition.
IterationEnded == pc = "loop" /\ NumModelCalls > 0

\* C1: answer precedence.  When an iteration ends whose response parsed as a
\* JSON object with a string under the key "answer", react has taken that
\* answer (so the loop condition fails and react returns it), whatever
\* "action" the response also carries.
C1_AnswerPrecedence ==
    (/\ IterationEnded
     /\ ResponseIsObject
     /\ "answer" \in DOMAIN response.val
     /\ response.val["answer"].t = "str")
    => answer = response.val["answer"]

\* C2: when the raw model output is not valid JSON, the parsing step raises
\* nothing out of react, appends exactly one entry, an error entry, to the
\* scratchpad, and leaves the loop at its condition with no answer, where
\* the next thing react does is another model call.
C2_MalformedOutputRecovered ==
    [][(pc = "parse" /\ RawOutputMalformed)
       => /\ pc' = "loop"
          /\ answer' = None
          /\ exc' = ""
          /\ Len(scratchpad') = Len(scratchpad) + 1
          /\ IsPrefix(scratchpad, scratchpad')
          /\ Last(scratchpad').role = "ipython"]_vars

\* C2 witness: a malformed first output, its one error entry, and the second
\* model call made.
C2_Witness ==
    /\ NumModelCalls = 2
    /\ calls[1].reply.kind = "ok"
    /\ ~calls[1].reply.body.response.json
    /\ Len(scratchpad) = 1
    /\ scratchpad[1].role = "ipython"
    /\ pc = "parse"

\* C3: dispatching an action name that matches no tool lets no exception
\* leave react, and the loop goes on to a further model call.
C3_UnknownToolNoEscape ==
    [][(pc = "dispatch" /\ Matching(action) = {})
       => /\ pc' = "loop"
          /\ answer' = None
          /\ exc' = ""]_vars

\* C3 witness: an unmatched action was dispatched and the next model call
\* was made.
C3_Witness ==
    \E i \in DOMAIN calls :
        /\ calls[i].op = "execute_tool"
        /\ ~calls[i].invoked
        /\ i < Len(calls)
        /\ calls[i + 1].op = "model"
        /\ pc = "parse"

\* C4: after an action name that matches no tool, the user prompt for the
\* next model call is the observation envelope carrying the "not found or
\* unsupported" message.
C4_UnknownToolObservation ==
    (/\ IterationEnded
     /\ Last(calls).op = "execute_tool"
     /\ ~Last(calls).invoked)
    => /\ "json" \in DOMAIN user_prompt
       /\ user_prompt =
            json_dumps_indent4(
              [observation |->
                 Str("Tool " \o action.s \o " not found or unsupported operation.")])

\* C5: when the matched tool's invoke raises, execute_tool yields
\* (False, "Error executing tool <name>: <error>"), that message wrapped as
\* {"observation": message} becomes the user prompt, nothing leaves react,
\* and control is back in the loop (going on unless the same response also
\* carried an answer).
C5_ToolErrorObserved ==
    [][(/\ pc = "dispatch"
        /\ Matching(action) # {}
        /\ ToolInvoke(tools[FirstOf(Matching(action))], action_input).raised)
       => LET err == ToolInvoke(tools[FirstOf(Matching(action))], action_input).err
              message == Str("Error executing tool " \o action.s \o ": " \o err)
          IN  /\ status' = "False"
              /\ tool_response' = message
              /\ user_prompt' = json_dumps_indent4([observation |-> message])
              /\ pc' = "loop"
              /\ exc' = ""
              /\ scratchpad' = scratchpad
              /\ ("answer" \notin DOMAIN response_dict => answer' = None)]_vars

\* C5 witness: a matched tool raised, its message is the observation in the
\* user prompt, and the next model call was made with it.
C5_Witness ==
    /\ pc = "parse"
    /\ status = "False"
    /\ Len(calls) >= 2
    /\ calls[Len(calls) - 1].op = "execute_tool"
    /\ calls[Len(calls) - 1].invoked
    /\ Last(calls).op = "model"
    /\ Last(calls).payload.prompt = json_dumps_indent4([observation |-> tool_response])

\* C6: the step limit is enforced.  With iterations = N given to
\* run_workflow, a react that gets no answer from the model stops after N
\* model calls: it never makes call N + 1.
C6_StepLimitEnforced ==
    pc \notin {"idle", "react"} => NumModelCalls <= iterations

\* Model responses that parsed (json.loads in react succeeded).
ParsedCalls ==
    {i \in DOMAIN calls :
        /\ calls[i].op = "model"
        /\ calls[i].reply.kind \in {"ok", "empty"}
        /\ process_model_response(request_model_generate(calls[i].reply).value).json}

\* An entry that holds an observation envelope.
IsObservationEntry(e) ==
    /\ e.role = "ipython"
    /\ "json" \in DOMAIN e.content
    /\ e.content.json
    /\ IsDict(e.content.val)
    /\ "observation" \in DOMAIN e.content.val

ModelTurns == {i \in DOMAIN scratchpad : scratchpad[i].role = "assistant"}
ObservationTurns == {i \in DOMAIN scratchpad : IsObservationEntry(scratchpad[i])}

\* C7: when react has returned, the scratchpad holds one model turn for each
\* response that parsed and one observation entry for each tool dispatch,
\* each observation right after a model turn.
C7_ScratchpadHoldsObservations ==
    pc = "done"
    => /\ Cardinality(ModelTurns) = Cardinality(ParsedCalls)
       /\ Cardinality(ObservationTurns) = NumDispatches
       /\ \A i \in ObservationTurns : i > 1 /\ (i - 1) \in ModelTurns

\* C8: two renderings of the prompt from the same tool list, user prompt and
\* scratchpad are identical.
C8_RenderDeterministic ==
    renders >= 2 => sys_prompt = prev_prompt

\* C9: the scratchpad is append-only: every step of react leaves the old
\* scratchpad as a prefix of the new one.
C9_ScratchpadAppendOnly ==
    [][IsPrefix(scratchpad, scratchpad')]_vars

\* C9 witness: a run that appended a model turn, an error entry and a further
\* model turn.
C9_Witness ==
    /\ Len(scratchpad) >= 3
    /\ scratchpad[1].role = "assistant"
    /\ scratchpad[2].role = "ipython"
    /\ scratchpad[3].role = "assistant"

\* The model call of this step ended in a transport failure.
TransportFailed == ModelCalled /\ Last(calls').reply.kind \in TransportFailures

\* C10: a transport failure of the model call leaves react as an exception
\* "Request failed: ...", appends nothing to the scratchpad, and is final: no
\* step of react follows it, so the call is not made again.
C10_TransportFailureFatal ==
    [][/\ pc # "raised"
       /\ TransportFailed
          => /\ pc' = "raised"
             /\ exc' = "Request failed: " \o Last(calls').reply.kind
             /\ scratchpad' = scratchpad
             /\ response' = response]_vars

\* C10 witness: the second model call failed in transport after a first
\* iteration that left an entry in the scratchpad.
C10_Witness ==
    /\ pc = "raised"
    /\ NumModelCalls = 2
    /\ Last(calls).op = "model"
    /\ Last(calls).reply.kind = "timeout"
    /\ Len(scratchpad) = 1
    /\ exc = "Request failed: timeout"

\* C14: tool names are unique keys, so an action name resolves to the one
\* tool registered under it: no dispatch finds more than one tool of the
\* requested name in the agent's tool list.
C14_ActionResolvesToOneTool ==
    \A i \in DOMAIN calls :
        calls[i].op = "execute_tool" => Cardinality(Matching(calls[i].name)) <= 1

\* C15: an empty body from the model endpoint is a condition of its own: the
\* parsing step that follows it does not record it in the scratchpad as a
\* model turn.
C15_EmptyBodyDistinct ==
    [][(pc = "parse" /\ LastReply.kind = "empty")
       => ~(/\ Len(scratchpad') = Len(scratchpad) + 1
            /\ Last(scratchpad').role = "assistant")]_vars

\* The response in hand parsed and carries neither "action" nor "answer".
NeitherActionNorAnswer ==
    /\ response.json
    /\ IsDict(response.val)
          => /\ "action" \notin DOMAIN response.val
             /\ "answer" \notin DOMAIN response.val

\* C16: a parsed response with neither "action" nor "answer" is a no-op
\* turn.  The model turn is appended to the scratchpad (for a JSON object it
\* is the only entry appended), no tool is invoked, nothing leaves react,
\* and control is back at the loop condition with no answer, where the next
\* thing react does is another model call.
C16_NoOpTurn ==
    [][(pc = "parse" /\ NeitherActionNorAnswer)
       => /\ IsPrefix(Append(scratchpad, Message("assistant", response)), scratchpad')
          /\ ResponseIsObject
                => scratchpad' = Append(scratchpad, Message("assistant", response))
          /\ calls' = calls
          /\ pc' = "loop"
          /\ answer' = None
          /\ exc' = ""]_vars

\* C16 witness: a first response {"thought": ...} left its model turn in the
\* scratchpad, no tool was dispatched, and the second model call was made.
C16_Witness ==
    /\ pc = "parse"
    /\ NumModelCalls = 2
    /\ NumDispatches = 0
    /\ calls[1].reply.kind = "ok"
    /\ calls[1].reply.body.response = RawText([thought |-> Str("hm")])
    /\ scratchpad = <<Message("assistant", json_dumps_indent4([thought |-> Str("hm")]))>>

\* C17: after every tool dispatch the user prompt is the text of
\* {"observation": <what execute_tool produced>}, printed with indent=4; an
\* iteration that ends without a dispatch leaves the user prompt as it was.
C17_ObservationIsNextUserInput ==
    [][/\ pc = "dispatch"
          => user_prompt' =
               json_dumps_indent4(
                 [observation |-> execute_tool(action, action_input).value])
       /\ (pc = "parse" /\ pc' = "loop") => user_prompt' = user_prompt]_vars

\* The messages of the exceptions a failed model request raises.
ModelFailureMessages == {"Request failed: " \o k : k \in TransportFailures}

\* C18: the fatal conditions are reported apart.  A model request that
\* failed leaves react as a model failure, and a run that went past its
\* iteration budget has ended in a failure that is not a model failure.
C18_TypedFailures ==
    /\ (pc = "raised" /\ Last(calls).reply.kind \in TransportFailures)
          => exc \in ModelFailureMessages
    /\ (pc \notin {"idle", "react"} /\ NumModelCalls > iterations)
          => (pc = "raised" /\ exc \notin ModelFailureMessages \cup {""})

\* C20: when execute_tool is called, the model turn of the iteration is
\* already the last entry of the scratchpad, and it is still there after the
\* call, whatever the tool did.
C20_ModelTurnBeforeTool ==
    [][(Len(calls') = Len(calls) + 1 /\ Last(calls').op = "execute_tool")
       => /\ Len(scratchpad) > 0
          /\ Last(scratchpad) = Message("assistant", response)
          /\ IsPrefix(scratchpad, scratchpad')]_vars

\* C20 witness: three dispatches, one to a tool that returned, one to a
\* tool that raised and one to a name that matched no tool, with the three
\* model turns in the scratchpad.
C20_Witness ==
    /\ pc = "loop"
    /\ Cardinality(ModelTurns) = 3
    /\ \E i, j, k \in DOMAIN calls :
          /\ calls[i].op = "execute_tool" /\ calls[i].name = Str("echo")
          /\ calls[j].op = "execute_tool" /\ calls[j].name = Str("boom")
          /\ calls[k].op = "execute_tool" /\ calls[k].name = Str("nope")
          /\ tools = <<EchoTool, BoomTool>>

\* The stages the run in progress (or the last run) has executed, in order.
LastStream == CHOOSE i \in DOMAIN ran :
                  ran[i].op = "stream" /\ \A j \in DOMAIN ran : ran[j].op = "stream" => j <= i
StagesOfRun == [j \in 1..(Len(ran) - LastStream) |-> ran[LastStream + j].name]

\* C11: checkpoint resume.  A call of run_workflow that follows an
\* interruption, with the session id of the interrupted run and the same
\* checkpointer, goes on at the stage after the last completed one, with
\* the state that was saved.
C11_CheckpointResume ==
    [][(/\ wf_pc = "interrupted"
        /\ wf_pc' = "streaming"
        /\ config' = config)
       => /\ wf_next' = checkpoint[config].next
          /\ wf_values'.response = checkpoint[config].values.response]_vars

\* C12: the graph create_graph builds is a strictly linear pipeline.  Every
\* stage has exactly one predecessor and one successor, START leads to the
\* first stage, each stage to the next and the last to END, there is no
\* other edge, and the stages of a run execute in that order, one after the
\* other.
C12_LinearPipeline ==
    wf_pc \in {"built", "streaming", "interrupted", "finished"}
    => /\ Cardinality(edges) = Len(nodes) + 1
       /\ Successors(START) = {nodes[1]}
       /\ Predecessors(END) = {nodes[Len(nodes)]}
       /\ \A i \in DOMAIN nodes :
             /\ Cardinality(Predecessors(nodes[i])) = 1
             /\ Cardinality(Successors(nodes[i])) = 1
             /\ i < Len(nodes) => Successors(nodes[i]) = {nodes[i + 1]}
       /\ NumRuns > 0
             => /\ Len(StagesOfRun) <= Len(nodes)
                /\ \A j \in DOMAIN StagesOfRun : StagesOfRun[j] = nodes[j]
                /\ wf_pc = "finished" => Len(StagesOfRun) = Len(nodes)

\* C12 witness: a graph of three stages ran from the first stage to the
\* last.
C12_Witness ==
    /\ wf_pc = "finished"
    /\ Len(nodes) = 3
    /\ NumRuns = 1
    /\ StagesOfRun = nodes

\* C13: a run that goes past the step limit given to run_workflow is
\* aborted and the step-limit error reported: no run executes more stages
\* than its iterations argument allows.
C13_StepLimitReported ==
    (wf_pc \in {"streaming", "finished"} /\ NumRuns > 0)
    => Len(StagesOfRun) <= iterations

\* Everything the tool asks of the cluster succeeds: both providers are
\* found, every name of a non-empty vm_names has an id, and the network map,
\* the storage map and the plan are created.
PlanCallsSucceed ==
    /\ ocp.vmware = "found"
    /\ ocp.host = "found"
    /\ vm_names.t = "list"
    /\ Len(vm_names.s) >= 1
    /\ ocp.inventory.ok
    /\ \A i \in DOMAIN vm_names.s : vm_names.s[i] \in ocp.inventory.vms
    /\ ocp.network_map = "created"
    /\ ocp.storage_map = "created"
    /\ ocp.plan = "created"

\* C19: when everything the tool asks of the cluster succeeds, the tool
\* returns the plan object create_migration_plan returned, with the ids of
\* the named VMs, and not an error string.
C19_PlanReturnedOnSuccess ==
    (tool_pc = "returned" /\ PlanCallsSucceed)
    => /\ tool_result.t = "dict"
       /\ tool_result =
            CreatedPlan([i \in DOMAIN vm_names.s |->
                           [id |-> "id-" \o vm_names.s[i], name |-> vm_names.s[i]]])

\* C21: at every model call the system prompt sent holds the whole
\* scratchpad as it is at that moment: one rendered entry for each entry
\* appended so far, model turns and error turns alike, in append order.
C21_PromptShowsWholeScratchpad ==
    [][ModelCalled
       => LET shown == Last(calls').payload.system.agent_scratchpad
          IN  /\ Len(shown) = Len(scratchpad)
              /\ \A i \in DOMAIN scratchpad :
                    /\ shown[i].role = scratchpad[i].role
                    /\ shown[i].content = scratchpad[i].content]_vars

\* C21 witness: the third model call was sent with a scratchpad that holds
\* a model turn, an error turn and a further model turn.
C21_Witness ==
    /\ pc = "parse"
    /\ NumModelCalls = 3
    /\ Len(scratchpad) = 3
    /\ scratchpad[1].role = "assistant"
    /\ scratchpad[2].role = "ipython"
    /\ scratchpad[3].role = "assistant"
    /\ Len(Last(calls).payload.system.agent_scratchpad) = 3

\* The parsed value of the reply of the model call at position i of calls.
ParsedReply(i) ==
    process_model_response(request_model_generate(calls[i].reply).value)

\* C22: execution is strictly sequential.  The first external call is a
\* model call; every tool invocation comes right after the model call whose
\* parsed response asked for it by that name and with that input, so an
\* iteration has one model call and at most one tool invocation, and the
\* next model call is made only when control is back at the loop condition.
C22_StrictlySequential ==
    /\ Len(calls) > 0 => calls[1].op = "model"
    /\ \A i \in DOMAIN calls :
          calls[i].op = "execute_tool"
          => /\ i > 1
             /\ calls[i - 1].op = "model"
             /\ calls[i - 1].reply.kind = "ok"
             /\ ParsedReply(i - 1).json
             /\ IsDict(ParsedReply(i - 1).val)
             /\ "action" \in DOMAIN ParsedReply(i - 1).val
             /\ ParsedReply(i - 1).val["action"] = calls[i].name
    /\ (Len(calls) > 0 /\ Last(calls).op = "execute_tool")
          => pc \in {"loop", "done"}
    /\ pc \in {"parse", "dispatch", "raised"}
          => (Len(calls) > 0 /\ Last(calls).op = "model")

\* C22 witness: two iterations that each made one model call and then one
\* tool invocation, and a third model call after them.
C22_Witness ==
    /\ Len(calls) = 5
    /\ calls[1].op = "model"
    /\ calls[2].op = "execute_tool"
    /\ calls[3].op = "model"
    /\ calls[4].op = "execute_tool"
    /\ calls[5].op = "model"

\* C23: a parsed response that has the key "action" and no key "answer" is
\* a dispatch request: the parsing step goes on to execute_tool, whatever
\* the value under "action".
C23_ActionAlwaysDispatched ==
    [][(/\ pc = "parse"
        /\ ResponseIsObject
        /\ "action" \in DOMAIN response.val
        /\ "answer" \notin DOMAIN response.val)
       => pc' = "dispatch"]_vars

\* C24: the tool outcome of an iteration is not kept past it: when the
\* iteration that ended react dispatched no tool, the value react returns
\* carries no tool result.
C24_OutcomeNotRetained ==
    (pc = "done" /\ Last(calls).op = "model")
    => result.tool_response = PyStr(None)

\* C25: the user request is in the prompt material of every model call: it
\* is the user-turn input, or the user prompt rendered into the system
\* prompt.
C25_RequestInEveryPrompt ==
    [][ModelCalled
       => LET sent == Last(calls').payload
          IN  \/ sent.prompt = Message("user", Str(user_request))
              \/ sent.system.user_prompt = Message("user", Str(user_request))]_vars

\* C26: react returns only when the response of its last model call parsed
\* as an object with a non-null "answer", and returns that value; and an
\* iteration whose response carries "answer": null ends with no answer
\* taken, so the loop goes on.
C26_ReturnsOnlyOnAnswer ==
    /\ pc = "done"
          => /\ ResponseIsObject
             /\ "answer" \in DOMAIN response.val
             /\ response.val["answer"] # None
             /\ result.response = response.val["answer"]
    /\ (/\ IterationEnded
        /\ ResponseIsObject
        /\ "answer" \in DOMAIN response.val
        /\ response.val["answer"] = None)
          => answer = None

\* C26 witness: a first response with "answer": null, then a second with an
\* answer, which react returned.
C26_Witness ==
    /\ pc = "done"
    /\ NumModelCalls = 2
    /\ calls[1].reply.kind = "ok"
    /\ calls[1].reply.body.response = RawText([answer |-> None])
    /\ result.response = Str("hi")

\* The last tool dispatch of the invocation.
LastDispatch ==
    calls[CHOOSE i \in DOMAIN calls :
            /\ calls[i].op = "execute_tool"
            /\ \A j \in DOMAIN calls : calls[j].op = "execute_tool" => j <= i]

\* C27: the tool_response of the value react returns is the text of what
\* the most recent dispatch produced (the tool's result, or the message for
\* a tool that raised or was not found), and the text of None when nothing
\* was dispatched.
C27_ToolResponseIsLastOutcome ==
    pc = "done"
    => IF NumDispatches = 0
       THEN result.tool_response = PyStr(None)
       ELSE result.tool_response =
              PyStr(execute_tool(LastDispatch.name, LastDispatch.input).value)

\* The plan the cluster holds is found and has a condition of type Ready
\* with status True.
PlanFoundAndReady ==
    /\ ocp.lookup = "found"
    /\ ocp.plan.has_status
    /\ \E i \in DOMAIN ocp.plan.conditions :
          ocp.plan.conditions[i] = Condition("Ready", "True")

StartMigrationCalled == \E i \in DOMAIN svc_calls : svc_calls[i] = "start_migration"

\* C28: start_migration_plan_tool never raises; it calls start_migration
\* only for a plan that was found and is ready, and then at most once; when
\* the lookup failed, the plan is missing or it is not ready, it returns a
\* message and start_migration is not called.
C28_StartOnlyWhenReady ==
    tool_pc # "ready"
    => /\ tool_pc = "returned"
       /\ StartMigrationCalled => PlanFoundAndReady
       /\ Cardinality({i \in DOMAIN svc_calls : svc_calls[i] = "start_migration"}) <= 1
       /\ ~PlanFoundAndReady
             => /\ tool_result.t = "str"
                /\ ~StartMigrationCalled

\* C28 witness: a plan whose conditions are Failed and then Ready was
\* found, and the tool started the migration.
C28_Witness ==
    /\ tool_pc = "returned"
    /\ ocp.lookup = "found"
    /\ ocp.plan.conditions = <<Condition("Failed", "True"), Condition("Ready", "True")>>
    /\ svc_calls = <<"get_migration_plan_by_name", "start_migration">>
    /\ tool_result = [t |-> "dict", s |-> "migration"]

\* The calls of the given operation in the trace of calls to vCenter.
VCallsOf(op) == {i \in DOMAIN svc_calls : svc_calls[i].op = op}

\* SmartConnect opened a session.
SessionOpened == \E i \in VCallsOf("SmartConnect") : svc_calls[i].ok

\* C29: the vSphere tools release what they acquire and never raise.  When
\* a tool has ended it has returned, and if a session with vCenter was
\* opened, it disconnected exactly once, as the last thing it did; if none
\* was opened, it did not disconnect.
C29_ConnectionReleased ==
    tool_pc # "ready"
    => /\ tool_pc \in {"list_vms returned", "retrieve_vm_details returned"}
       /\ SessionOpened
             => /\ Cardinality(VCallsOf("Disconnect")) = 1
                /\ Last(svc_calls).op = "Disconnect"
       /\ ~SessionOpened => VCallsOf("Disconnect") = {}

\* The list holds a provider of this name that has a condition of type
\* Ready with status True.
ListedAndReady(n) ==
    \E i \in DOMAIN providers :
        /\ providers[i].name = n
        /\ providers[i].has_status
        /\ \E j \in DOMAIN providers[i].conditions :
              providers[i].conditions[j] = Condition("Ready", "True")

\* C30: verify_providers_ready returns True exactly when vmware and host
\* are both listed and ready, and otherwise returns the message that names
\* exactly those of the two that are absent or not ready.
C30_ReadyExactly ==
    tool_pc # "ready"
    => /\ tool_pc = "returned"
       /\ tool_result = PyTrue <=> (ListedAndReady("vmware") /\ ListedAndReady("host"))
       /\ (~ListedAndReady("vmware") /\ ~ListedAndReady("host"))
             => tool_result = Str("The following providers are not ready: vmware, host")
       /\ (~ListedAndReady("vmware") /\ ListedAndReady("host"))
             => tool_result = Str("The following providers are not ready: vmware")
       /\ (ListedAndReady("vmware") /\ ~ListedAndReady("host"))
             => tool_result = Str("The following providers are not ready: host")

====
